---- MODULE Spec2Model ----
(***************************************************************************)
(* Model of src/app.py, the Anti-Bias Self Assessment Tool (Streamlit).    *)
(*                                                                         *)
(* Three specifications share the variables of this module:                *)
(*   Spec      the Streamlit process: sessions running main()              *)
(*   WrapSpec  wrap_text, one pass of its outer loop per step              *)
(*   PdfSpec   generate_pdf, one drawing step per action                   *)
(*                                                                         *)
(* Question texts are abstracted to their position in the list of their    *)
(* (category, type); a rendered text width is a number of points.          *)
(***************************************************************************)
EXTENDS Integers, Sequences, FiniteSets, Bags, TLC

VARIABLES
    session_state,   \* per session: st.session_state, the two named keys
    widget_state,    \* per session: st.session_state, the selectbox keys
    screen,          \* per session: what the last run of main() computed and showed
    runs,            \* runs of main() in this process so far
    last_visits,     \* the "Unique Page Visits" value shown by the latest run
    module_questions,\* the module-level questions_list as the latest run left it
    wt,              \* wrap_text: the call's locals
    pdf              \* generate_pdf: the call's locals and the canvas

vars == <<session_state, widget_state, screen, runs, last_visits,
         module_questions, wt, pdf>>

----------------------------------------------------------------------------
(* Bounds of the model *)

\* sessions (browser tabs) served by the process
MaxSessions == 2
\* runs of main() in the process, all sessions together
MaxRuns == 4
\* the respondent changes only the first MaxAnswered questions on the page
MaxAnswered == 1
\* random.shuffle: the draws of its loop that are explored are those numbered
\* 0..MaxShuffle in the count of all draws
MaxShuffle == 1

\* wrap_text: a text has at most MaxWords words, each at most MaxWordWidth wide,
\* and the content width is at most MaxWidth (widths in units of a space)
MaxWords == 4
MaxWordWidth == 3
MaxWidth == 5
\* wrap_text: passes of the outer loop that are followed
MaxLines == 6
\* generate_pdf: categories in total_scores_per_category, and chart images
MaxScoreLines == 8
MaxImages == 7

Sessions == 1..MaxSessions

----------------------------------------------------------------------------
(* Module-level data: src/app.py lines 10-97 *)

\* categories -> types -> number of question texts (the dict keeps this order)
categories ==
    << [name |-> "General",
        types |-> << [name |-> "Individual Actions", n |-> 6],
                     [name |-> "Institution Actions", n |-> 5] >>],
       [name |-> "Recruiting & Hiring",
        types |-> << [name |-> "Individual Actions", n |-> 3],
                     [name |-> "Institution Actions", n |-> 3] >>],
       [name |-> "Culture & Engagement",
        types |-> << [name |-> "Individual Actions", n |-> 1],
                     [name |-> "Institution Actions", n |-> 1] >>],
       [name |-> "Development",
        types |-> << [name |-> "Individual Actions", n |-> 4],
                     [name |-> "Institution Actions", n |-> 3] >>],
       [name |-> "Performance & Reward",
        types |-> << [name |-> "Individual Actions", n |-> 2],
                     [name |-> "Institution Actions", n |-> 1],
                     [name |-> "Industry Actions", n |-> 1] >>],
       [name |-> "Exit & Retain",
        types |-> << [name |-> "Individual Actions", n |-> 1],
                     [name |-> "Institution Actions", n |-> 2] >> ] >>

\* the questions of one type, in order
TypeQuestions(cname, t) ==
    [k \in 1..t.n |-> [category |-> cname, type |-> t.name, question |-> k]]

RECURSIVE FlattenTypes(_, _)
FlattenTypes(c, i) ==
    IF i > Len(c.types) THEN <<>>
    ELSE TypeQuestions(c.name, c.types[i]) \o FlattenTypes(c, i + 1)

RECURSIVE FlattenCategories(_, _)
FlattenCategories(cats, i) ==
    IF i > Len(cats) THEN <<>>
    ELSE FlattenTypes(cats[i], 1) \o FlattenCategories(cats, i + 1)

\* the flattened list of questions
questions_list == FlattenCategories(categories, 1)

\* the rating options of every selectbox
options == <<1, 2, 3, 4, 5>>

OptionSet == {options[i] : i \in 1..Len(options)}

\* the session_state key of a question's selectbox
WidgetKey(item) == <<item.category, item.type, item.question>>

----------------------------------------------------------------------------
(* Helpers on sequences and functions *)

\* Python's sum() of a sequence of natural numbers: the size of the bag that
\* holds s[i] copies of i
SumSeq(s) == BagCardinality([i \in {j \in 1..Len(s) : s[j] > 0} |-> s[i]])

\* f with key k set to v (a Python dict assignment)
Put(f, k, v) == [x \in (DOMAIN f) \cup {k} |-> IF x = k THEN v ELSE f[x]]

EmptyDict == [x \in {} |-> 0]

\* the sequence with every element computed (the value is the same)
Listed(seq) == SubSeq(seq, 1, Len(seq))

----------------------------------------------------------------------------
(* The score aggregator: src/app.py lines 125-149 *)

\* sum of the scores of the responses
calculate_total_score(responses) ==
    SumSeq([i \in 1..Len(responses) |-> responses[i].score])

\* position of a category among the (category, value) pairs of an ordered dict
IndexOfCategory(d, c) ==
    IF \E i \in 1..Len(d) : d[i][1] = c
    THEN CHOOSE i \in 1..Len(d) : d[i][1] = c
    ELSE 0

\* the responses that create a dict entry, in order: the first of each category
FirstOfCategory(responses) ==
    SelectSeq([i \in 1..Len(responses) |-> i],
              LAMBDA i : \A j \in 1..(i - 1) :
                             responses[j].category # responses[i].category)

\* A mutant of CategoryTotal: "=" for "+=", the entry keeps the last score.
CategoryTotalLast(responses, c) ==
    LET last == CHOOSE i \in 1..Len(responses) :
                    /\ responses[i].category = c
                    /\ \A j \in (i + 1)..Len(responses) : responses[j].category # c
    IN  responses[last].score

\* the entry of category c after the loop: 0, then += every score of c
CategoryTotal(responses, c) ==
    0 + SumSeq([i \in 1..Len(responses) |->
                   IF responses[i].category = c THEN responses[i].score ELSE 0])

\* the dict with an entry for each of the given first responses, in their order
TotalsInOrder(responses, firsts) ==
    [k \in 1..Len(firsts) |->
        <<responses[firsts[k]].category,
          CategoryTotal(responses, responses[firsts[k]].category)>>]

\* the ordered dict category -> total: a Python dict keeps its keys in the
\* order of their first insertion
calculate_total_scores_per_category(responses) ==
    TotalsInOrder(responses, FirstOfCategory(responses))

\* the number of question texts of a category, all its types together
TotalQuestions(c) == SumSeq([i \in 1..Len(c.types) |-> c.types[i].n])

\* the ordered dict category -> maximum score, 5 per question
calculate_max_scores_per_category(cats) ==
    [i \in 1..Len(cats) |-> <<cats[i].name, TotalQuestions(cats[i]) * 5>>]

\* d[c] of an ordered dict
Lookup(d, c) == d[IndexOfCategory(d, c)][2]

\* A mutant of Progress: the ratio inverted, max_score over score.
ProgressInverted(score, max_score) == (100 * max_score) \div score

\* int((score / max_score) * 100): the ratio truncated to an integer.  The
\* float product truncates to the exact ratio's floor for the maxima of the six
\* categories (55, 30, 10, 35, 20, 15) and every score up to them.
Progress(score, max_score) == (100 * score) \div max_score

\* Python's round(score / max_score * 100): to the nearest integer, ties to even
Round(score, max_score) ==
    LET q == (100 * score) \div max_score
        twice == 2 * ((100 * score) % max_score)
    IN  IF twice < max_score THEN q
        ELSE IF twice > max_score THEN q + 1
        ELSE IF q % 2 = 0 THEN q ELSE q + 1

----------------------------------------------------------------------------
(* display_questions: src/app.py lines 99-123 *)

\* "if key not in st.session_state: st.session_state[key] = 1"
InitialValue(ws, key) == IF key \in DOMAIN ws THEN ws[key] ELSE 1

\* A mutant of selectbox: the 0-based index of the option for the option.
selectboxIndex(ws, key) ==
    IF InitialValue(ws, key) \in OptionSet THEN InitialValue(ws, key) - 1 ELSE 0

\* st.selectbox(options, index=..., key=key): the widget's value, an option;
\* the first option when the stored value is not one of them
selectbox(ws, key) ==
    IF InitialValue(ws, key) \in OptionSet THEN InitialValue(ws, key) ELSE options[1]

\* the selectbox keys after the loop: every displayed question has its key
WidgetsDisplayed(shuffled, ws) ==
    LET keys == {WidgetKey(shuffled[i]) : i \in 1..Len(shuffled)}
    IN  [k \in (DOMAIN ws) \cup keys |-> IF k \in keys THEN selectbox(ws, k) ELSE ws[k]]

\* the responses returned: one per displayed question, in display order
display_questions(shuffled, ws) ==
    [i \in 1..Len(shuffled) |->
        [category |-> shuffled[i].category,
         type     |-> shuffled[i].type,
         question |-> shuffled[i].question,
         score    |-> selectbox(ws, WidgetKey(shuffled[i]))]]

----------------------------------------------------------------------------
(* The results of a submitted run: src/app.py lines 227-230, 387-412 *)

\* the results shown on the page: "category: score out of max" and its
\* progress bar, in the order of total_scores_per_category
ResultsShown(totals, maxes) ==
    [i \in 1..Len(totals) |->
        [category  |-> totals[i][1],
         score     |-> totals[i][2],
         max_score |-> Lookup(maxes, totals[i][1]),
         progress  |-> Progress(totals[i][2], Lookup(maxes, totals[i][1]))]]

\* the score lines of the PDF: "category: score out of max (progress%)"
ScoreLines(totals, maxes) ==
    [i \in 1..Len(totals) |->
        [category  |-> totals[i][1],
         score     |-> totals[i][2],
         max_score |-> Lookup(maxes, totals[i][1]),
         progress  |-> Progress(totals[i][2], Lookup(maxes, totals[i][1]))]]

\* sum of the scores of the responses of one (category, type)
TypeScore(responses, cname, tname) ==
    SumSeq([i \in 1..Len(responses) |->
               IF responses[i].category = cname /\ responses[i].type = tname
               THEN responses[i].score ELSE 0])

RECURSIVE FlattenedTypes(_, _, _)
FlattenedTypes(responses, c, j) ==
    IF j > Len(c.types) THEN <<>>
    ELSE << [Category  |-> c.name,
             Type      |-> c.types[j].name,
             Score     |-> TypeScore(responses, c.name, c.types[j].name),
             MaxScore  |-> c.types[j].n * 5] >>
         \o FlattenedTypes(responses, c, j + 1)

RECURSIVE FlattenedFrom(_, _, _)
FlattenedFrom(responses, cats, i) ==
    IF i > Len(cats) THEN <<>>
    ELSE FlattenedTypes(responses, cats[i], 1) \o FlattenedFrom(responses, cats, i + 1)

\* flattened_scores: score and maximum of every (category, type); the chart's
\* Percentage is the float Score / MaxScore * 100
flattened_scores(responses, cats) == FlattenedFrom(responses, cats, 1)

\* custom_bar_chart returns one image per category of scores_data
NumCharts(flat) == Cardinality({flat[i].Category : i \in 1..Len(flat)})

----------------------------------------------------------------------------
(* main: src/app.py lines 315-447 *)

\* x[i], x[j] = x[j], x[i], with i and j the indices of the Python list
Swap(x, i, j) == [x EXCEPT ![i + 1] = x[j + 1], ![j + 1] = x[i + 1]]

\* the passes i, i - 1, ..., 1 of the loop of random.shuffle: pass i exchanges
\* x[i] with x[j], where j = draws[i] is what randbelow(i + 1) returned
RECURSIVE ShufflePasses(_, _, _)
ShufflePasses(x, draws, i) ==
    IF i < 1 THEN x
    ELSE ShufflePasses(Swap(x, i, draws[i]), draws, i - 1)

\* random.shuffle(list), "for i in reversed(range(1, len(x)))": the order it
\* leaves when the draws of randbelow are draws[i], each in 0..i
ShuffleOutcome(list, draws) == Listed(ShufflePasses(list, draws, Len(list) - 1))

\* k without its digits for the passes before pass i, in the mixed-radix
\* count of all the draws: pass n - 1 comes first and has the lowest digit,
\* the digit of pass m has m + 1 values
RECURSIVE DrawsLeft(_, _, _)
DrawsLeft(n, k, i) ==
    IF i >= n - 1 \/ k = 0 THEN k ELSE DrawsLeft(n, k, i + 1) \div (i + 2)

\* the draws numbered k of the n! there are for a list of n items:
\* digit 0 of a pass is j = i, which leaves x[i] in place, digit d > 0 is
\* j = d - 1
DrawsOf(n, k) ==
    [i \in 1..(n - 1) |-> (i + (DrawsLeft(n, k, i) % (i + 1))) % (i + 1)]

\* the draws of randbelow that are explored for a list of n items: those
\* numbered 0..MaxShuffle
ExploredDraws(n) == {DrawsOf(n, k) : k \in 0..MaxShuffle}

\* the draws that leave the order as it is: j = i in every pass
NoDraws(n) == [i \in 1..(n - 1) |-> i]

\* what a run that has not happened shows
NoScreen ==
    [responses |-> <<>>, total_score |-> 0, total_scores_per_category |-> <<>>,
     max_scores_per_category |-> <<>>, submitted |-> FALSE, results |-> <<>>,
     flattened |-> <<>>, score_lines |-> <<>>, charts |-> 0, visits |-> 0]

\* lines 317-319: create the counter at 0 if the session has none, then add 1
CountVisit(ss) ==
    IF "unique_visits" \in DOMAIN ss
    THEN [ss EXCEPT !["unique_visits"] = @ + 1]
    ELSE Put(ss, "unique_visits", 0 + 1)

\* A mutant of ShuffleOnce: the questions are shuffled again on every run.
ShuffleEveryRun(ss, draws) ==
    Put(ss, "shuffled_questions", ShuffleOutcome(questions_list, draws))

\* lines 340-342: shuffle a copy of questions_list once per session
ShuffleOnce(ss, draws) ==
    IF "shuffled_questions" \in DOMAIN ss
    THEN ss
    ELSE Put(ss, "shuffled_questions", ShuffleOutcome(questions_list, draws))

\* the module-level list after lines 340-342 of a run that started with it as
\* list: random.shuffle is given the copy stored in the session, list itself
\* keeps its order whether or not the shuffle is called
ListAfterShuffle(ss, list, draws) == list

\* what one run computes and shows, from the session state it leaves
ScreenOf(ss, ws, submit) ==
    LET responses == Listed(display_questions(ss["shuffled_questions"], ws))
        totals    == Listed(calculate_total_scores_per_category(responses))
        maxes     == Listed(calculate_max_scores_per_category(categories))
        flat      == flattened_scores(responses, categories)
    IN  [responses |-> responses,
         total_score |-> calculate_total_score(responses),
         total_scores_per_category |-> totals,
         max_scores_per_category |-> maxes,
         submitted |-> submit,
         results |-> IF submit THEN ResultsShown(totals, maxes) ELSE <<>>,
         flattened |-> IF submit THEN flat ELSE <<>>,
         score_lines |-> IF submit THEN ScoreLines(totals, maxes) ELSE <<>>,
         charts |-> IF submit THEN NumCharts(flat) ELSE 0,
         visits |-> ss["unique_visits"]]

\* the draws of randbelow in a run: random.shuffle is called only when the
\* session has no shuffled_questions yet
ShuffleDraws(ss) ==
    IF "shuffled_questions" \in DOMAIN ss
    THEN {NoDraws(Len(questions_list))}
    ELSE ExploredDraws(Len(questions_list))

\* one run of the script for session s: ws is the session's widget state as the
\* browser event left it, submit tells whether the Submit button was clicked
main(s, ws, submit) ==
    /\ runs < MaxRuns
    /\ \E draws \in ShuffleDraws(session_state[s]) :
         LET ss == ShuffleOnce(CountVisit(session_state[s]), draws)
             sc == ScreenOf(ss, ws, submit)
         IN  /\ session_state' = [session_state EXCEPT ![s] = ss]
             /\ widget_state' = [widget_state EXCEPT
                                   ![s] = WidgetsDisplayed(ss["shuffled_questions"], ws)]
             /\ screen' = [screen EXCEPT ![s] = sc]
             /\ last_visits' = sc.visits
             /\ module_questions'
                  = ListAfterShuffle(CountVisit(session_state[s]), questions_list, draws)
    /\ runs' = runs + 1
    /\ UNCHANGED <<wt, pdf>>

Started(s) == "unique_visits" \in DOMAIN session_state[s]

\* the questions the respondent changes: the first MaxAnswered on the page
Answerable(s) ==
    IF "shuffled_questions" \in DOMAIN session_state[s]
    THEN {session_state[s]["shuffled_questions"][i] : i \in 1..MaxAnswered}
    ELSE {}

\* the page is opened (a new session, in order of arrival) or rerun unchanged
Load(s) ==
    /\ \A t \in Sessions : t < s => Started(t)
    /\ main(s, widget_state[s], FALSE)

\* the respondent picks another option in one selectbox: the browser stores it
\* under the widget's key and the script reruns
Select(s, item, v) ==
    /\ WidgetKey(item) \in DOMAIN widget_state[s]
    /\ widget_state[s][WidgetKey(item)] # v
    /\ main(s, [widget_state[s] EXCEPT ![WidgetKey(item)] = v], FALSE)

\* the respondent clicks Submit: the script reruns with the button True
Submit(s) ==
    /\ Started(s)
    /\ main(s, widget_state[s], TRUE)

WtIdle == [pc |-> "idle", text |-> <<>>, words |-> <<>>, lines |-> <<>>, max_width |-> 0]

PdfIdle == [pc |-> "idle"]

Init ==
    /\ session_state = [s \in Sessions |-> EmptyDict]
    /\ widget_state = [s \in Sessions |-> EmptyDict]
    /\ screen = [s \in Sessions |-> NoScreen]
    /\ runs = 0
    /\ last_visits = 0
    /\ module_questions = questions_list
    /\ wt = WtIdle
    /\ pdf = PdfIdle

Next ==
    \/ \E s \in Sessions : Load(s)
    \/ \E s \in Sessions : \E item \in Answerable(s), v \in OptionSet : Select(s, item, v)
    \/ \E s \in Sessions : Submit(s)

Spec == Init /\ [][Next]_vars

----------------------------------------------------------------------------
(* wrap_text: src/app.py lines 188-197.  A word is its rendered width, in    *)
(* units of the width of a space; a line is the sequence of its words.        *)

\* canvas.stringWidth(line + word + ' '): every word is followed by a space
stringWidth(ws) == SumSeq(ws) + Len(ws)

\* the inner loop: pop words onto the line while the line with the next word
\* and its space fits in max_width
RECURSIVE FillLine(_, _, _)
FillLine(line, words, max_width) ==
    IF words # <<>> /\ stringWidth(Append(line, Head(words))) <= max_width
    THEN FillLine(Append(line, Head(words)), Tail(words), max_width)
    ELSE [line |-> line, words |-> words]

\* one pass of the outer loop: start an empty line, fill it, append it
wrap_pass(w) ==
    LET filled == FillLine(<<>>, w.words, w.max_width)
    IN  [w EXCEPT !.words = filled.words,
                  !.lines = Append(w.lines, filled.line)]

\* the texts and widths wrap_text is called with
Texts == UNION {[1..n -> 1..MaxWordWidth] : n \in 0..MaxWords}

\* text.split() done, lines = []
wrap_text(text, max_width) ==
    [pc |-> "loop", text |-> text, words |-> text, lines |-> <<>>,
     max_width |-> max_width]

WrapLine ==
    /\ wt.pc = "loop"
    /\ wt.words # <<>>
    /\ Len(wt.lines) < MaxLines
    /\ wt' = wrap_pass(wt)
    /\ UNCHANGED <<session_state, widget_state, screen, runs, last_visits,
                   module_questions, pdf>>

WrapReturn ==
    /\ wt.pc = "loop"
    /\ wt.words = <<>>
    /\ wt' = [wt EXCEPT !.pc = "done"]
    /\ UNCHANGED <<session_state, widget_state, screen, runs, last_visits,
                   module_questions, pdf>>

WrapInit ==
    /\ session_state = [s \in Sessions |-> EmptyDict]
    /\ widget_state = [s \in Sessions |-> EmptyDict]
    /\ screen = [s \in Sessions |-> NoScreen]
    /\ runs = 0
    /\ last_visits = 0
    /\ module_questions = questions_list
    /\ pdf = PdfIdle
    /\ \E text \in Texts, max_width \in 1..MaxWidth : wt = wrap_text(text, max_width)

WrapNext == WrapLine \/ WrapReturn

WrapSpec == WrapInit /\ [][WrapNext]_vars

\* C4: wrap_text terminates: every pass of the outer loop places at least one
\* word on the line it appends (a word wider than max_width alone on its
\* line), so the lines never outnumber the words placed.
C4_WrapTextTerminates ==
    /\ Len(wt.lines) + Len(wt.words) <= Len(wt.text)
    /\ \A i \in 1..Len(wt.lines) : wt.lines[i] # <<>>

----------------------------------------------------------------------------
(* generate_pdf: src/app.py lines 199-313.  Lengths are in points.            *)

\* width, height = letter
width == 612
height == 792
margin == 40
charts_per_page == 2
\* for page in range(3)
chart_pages == 3

\* the explanations, by the lines wrap_text returns for them in Helvetica 10 on
\* width - 2 * margin = 532 points: head counts the lines of the bold text up
\* to the colon of a "bold_pre" entry, lines those of the text (the remainder)
explanations ==
    << [style |-> "bold",     head |-> 0, lines |-> 1],
       [style |-> "normal",   head |-> 0, lines |-> 2],
       [style |-> "normal",   head |-> 0, lines |-> 2],
       [style |-> "normal",   head |-> 0, lines |-> 1],
       [style |-> "normal",   head |-> 0, lines |-> 1],
       [style |-> "normal",   head |-> 0, lines |-> 1],
       [style |-> "normal",   head |-> 0, lines |-> 1],
       [style |-> "normal",   head |-> 0, lines |-> 1],
       [style |-> "normal",   head |-> 0, lines |-> 0],
       [style |-> "normal",   head |-> 0, lines |-> 1],
       [style |-> "bold_pre", head |-> 1, lines |-> 1],
       [style |-> "bold_pre", head |-> 1, lines |-> 1],
       [style |-> "bold_pre", head |-> 1, lines |-> 1],
       [style |-> "bold_pre", head |-> 1, lines |-> 1],
       [style |-> "bold_pre", head |-> 1, lines |-> 1],
       [style |-> "bold_pre", head |-> 1, lines |-> 1] >>

\* the logo file: missing or unreadable, or loaded with a display height of
\* logo_display_width * aspect_ratio points
LogoFiles ==
    {[ok |-> FALSE, display_height |-> 0]}
    \cup {[ok |-> TRUE, display_height |-> h] : h \in {60, 345, 615}}

\* the locals after lines 201-205: a fresh canvas on an empty buffer
generate_pdf(logo, nscores, nimages) ==
    [pc |-> "logo", logo |-> logo, nscores |-> nscores, nimages |-> nimages,
     y |-> height - margin, page |-> 1, drawn |-> <<>>, warnings |-> 0,
     i |-> 1, e |-> 1, part |-> "head", j |-> 1,
     chart_index |-> 0, chart_page |-> 0, slot |-> 0,
     saved |-> FALSE, buffer |-> "open"]

\* c.showPage()
showPage(p) == [p EXCEPT !.page = @ + 1]

\* c.drawString / c.drawImage of item id on the current page: y is the y
\* argument of the call, was is the cursor the pass of the loop started with
Drawing(p, kind, id, y, was) ==
    [kind |-> kind, id |-> id, page |-> p.page, y |-> y, was |-> was]

\* A mutant of add_logo: the exception of a missing logo is not caught.
add_logo_uncaught(p) ==
    IF p.logo.ok
    THEN [p EXCEPT !.drawn = Append(@, Drawing(p, "logo", 1, p.y - p.logo.display_height, p.y)),
                   !.y = @ - (p.logo.display_height + 20),
                   !.pc = "title"]
    ELSE [p EXCEPT !.pc = "raised"]

\* lines 207-218: draw the logo with its lower edge at y - logo_display_height
\* and move below it; on any exception report st.error and go on
add_logo(p) ==
    IF p.logo.ok
    THEN [p EXCEPT !.drawn = Append(@, Drawing(p, "logo", 1, p.y - p.logo.display_height, p.y)),
                   !.y = @ - (p.logo.display_height + 20),
                   !.pc = "title"]
    ELSE [p EXCEPT !.warnings = @ + 1, !.pc = "title"]

\* lines 220-225: the title and "Your results:"
draw_title(p) ==
    [p EXCEPT !.drawn = @ \o << Drawing(p, "title", 1, p.y, p.y),
                                Drawing(p, "title", 2, p.y - 20, p.y - 20) >>,
              !.y = @ - 20 - 15,
              !.pc = "scores"]

\* A mutant of NeedsNewPage: the page is broken only once the cursor is below
\* the bottom margin.
NeedsNewPageLate(y) == y < 0

\* "if y - 15 < margin"
NeedsNewPage(y) == y - 15 < margin

\* a text line: break the page if needed, draw at the cursor, move down
draw_line(p, kind, id, leading) ==
    LET q == IF NeedsNewPage(p.y) THEN [showPage(p) EXCEPT !.y = height - margin]
             ELSE p
    IN  [q EXCEPT !.drawn = Append(@, Drawing(q, kind, id, q.y, p.y)),
                  !.y = @ - leading]

\* lines 227-235: one pass of the score loop
score_line(p) == [draw_line(p, "score", p.i, 15) EXCEPT !.i = @ + 1]

\* line 237: extra space before the explanations
scores_done(p) == [p EXCEPT !.y = @ - 10, !.pc = "explain"]

\* lines 267-272 and 279-284: one wrapped line of explanation e
explanation_line(p) ==
    [draw_line(p, p.part, <<p.e, p.j>>, 12) EXCEPT !.j = @ + 1]

\* lines 273-274: the bold lines are done, wrap the remainder
head_done(p) == [p EXCEPT !.part = "body", !.j = 1]

\* line 285: extra space, next explanation
explanation_done(p) ==
    [p EXCEPT !.y = @ - 5, !.e = @ + 1, !.part = "head", !.j = 1]

\* lines 287-295: a new page for the charts, the first pass of the page loop
start_charts(p) ==
    [showPage(p) EXCEPT !.pc = "charts", !.chart_index = 0, !.chart_page = 0,
                        !.slot = 0, !.y = height - 50]

\* A mutant of chart_slots_left: one more chart on a page.
chart_slots_left_more(p) == p.slot < charts_per_page + 1

\* the inner loop "for _ in range(charts_per_page)" has a pass left
chart_slots_left(p) == p.slot < charts_per_page

\* lines 299-305: one chart image
draw_chart(p) ==
    LET q == IF p.y - 320 < margin THEN [showPage(p) EXCEPT !.y = height - 50]
             ELSE p
    IN  [q EXCEPT !.drawn = Append(@, Drawing(q, "chart", p.chart_index, q.y - 300, p.y)),
                  !.y = @ - 320,
                  !.chart_index = @ + 1,
                  !.slot = @ + 1]

\* lines 306-308 and 294-295: leave the page loop when the images are out;
\* else end the page, and go on with the next pass if there is one
chart_page_done(p) ==
    IF p.chart_index >= p.nimages THEN [p EXCEPT !.pc = "save"]
    ELSE IF p.chart_page + 1 < chart_pages
         THEN [showPage(p) EXCEPT !.chart_page = @ + 1, !.slot = 0,
                                  !.y = height - 50]
         ELSE [showPage(p) EXCEPT !.chart_page = @ + 1, !.pc = "save"]

\* lines 310-313: c.save(); buffer.seek(0); return buffer
save(p) == [p EXCEPT !.saved = TRUE, !.buffer = "at 0", !.pc = "done"]

PdfStep(next) ==
    /\ pdf' = next
    /\ UNCHANGED <<session_state, widget_state, screen, runs, last_visits,
                   module_questions, wt>>

PdfLogo == pdf.pc = "logo" /\ PdfStep(add_logo(pdf))

PdfTitle == pdf.pc = "title" /\ PdfStep(draw_title(pdf))

PdfScoreLine ==
    pdf.pc = "scores" /\ pdf.i <= pdf.nscores /\ PdfStep(score_line(pdf))

PdfScoresDone ==
    pdf.pc = "scores" /\ pdf.i > pdf.nscores /\ PdfStep(scores_done(pdf))

\* the lines the current part of explanation e has
PartLines(p) ==
    IF p.part = "head" THEN explanations[p.e].head ELSE explanations[p.e].lines

PdfExplanationLine ==
    /\ pdf.pc = "explain" /\ pdf.e <= Len(explanations)
    /\ pdf.j <= PartLines(pdf)
    /\ PdfStep(explanation_line(pdf))

PdfHeadDone ==
    /\ pdf.pc = "explain" /\ pdf.e <= Len(explanations)
    /\ pdf.part = "head" /\ pdf.j > PartLines(pdf)
    /\ PdfStep(head_done(pdf))

PdfExplanationDone ==
    /\ pdf.pc = "explain" /\ pdf.e <= Len(explanations)
    /\ pdf.part = "body" /\ pdf.j > PartLines(pdf)
    /\ PdfStep(explanation_done(pdf))

PdfStartCharts ==
    pdf.pc = "explain" /\ pdf.e > Len(explanations) /\ PdfStep(start_charts(pdf))

PdfChart ==
    /\ pdf.pc = "charts"
    /\ chart_slots_left(pdf) /\ pdf.chart_index < pdf.nimages
    /\ PdfStep(draw_chart(pdf))

PdfChartPageDone ==
    /\ pdf.pc = "charts"
    /\ ~(chart_slots_left(pdf) /\ pdf.chart_index < pdf.nimages)
    /\ PdfStep(chart_page_done(pdf))

PdfSave == pdf.pc = "save" /\ PdfStep(save(pdf))

PdfInit ==
    /\ session_state = [s \in Sessions |-> EmptyDict]
    /\ widget_state = [s \in Sessions |-> EmptyDict]
    /\ screen = [s \in Sessions |-> NoScreen]
    /\ runs = 0
    /\ last_visits = 0
    /\ module_questions = questions_list
    /\ wt = WtIdle
    /\ \E logo \in LogoFiles, nscores \in 0..MaxScoreLines, nimages \in 0..MaxImages :
          pdf = generate_pdf(logo, nscores, nimages)

PdfNext ==
    \/ PdfLogo
    \/ PdfTitle
    \/ PdfScoreLine
    \/ PdfScoresDone
    \/ PdfExplanationLine
    \/ PdfHeadDone
    \/ PdfExplanationDone
    \/ PdfStartCharts
    \/ PdfChart
    \/ PdfChartPageDone
    \/ PdfSave

PdfSpec == PdfInit /\ [][PdfNext]_vars

----------------------------------------------------------------------------
(* Properties of generate_pdf, checked under PdfSpec *)

Charts(p) == SelectSeq(p.drawn, LAMBDA d : d.kind = "chart")

IsTextLine(d) == d.kind \in {"score", "head", "body"}

TextLines(p) == SelectSeq(p.drawn, IsTextLine)

\* the text lines of explanation e, in the order of the code
ExplanationLines(e) ==
    [j \in 1..explanations[e].head |-> <<"head", <<e, j>>>>]
    \o [j \in 1..explanations[e].lines |-> <<"body", <<e, j>>>>]

RECURSIVE ExplanationsFrom(_)
ExplanationsFrom(e) ==
    IF e > Len(explanations) THEN <<>>
    ELSE ExplanationLines(e) \o ExplanationsFrom(e + 1)

\* every score line and explanation line of a call, in order
AllTextLines(p) ==
    [i \in 1..p.nscores |-> <<"score", i>>] \o ExplanationsFrom(1)

\* C5: for any number n of chart images exactly min(n, 6) are drawn, the
\* first ones in list order, two per page on at most three chart pages, and
\* the call returns without an error.
C5_FirstSixChartsDrawn ==
    LET ch == Charts(pdf)
        k  == IF pdf.nimages < 6 THEN pdf.nimages ELSE 6
    IN  /\ Len(ch) <= k
        /\ \A i \in 1..Len(ch) : ch[i].id = i - 1
        /\ \A i \in 1..Len(ch) :
             Cardinality({h \in 1..Len(ch) : ch[h].page = ch[i].page}) <= 2
        /\ Cardinality({ch[i].page : i \in 1..Len(ch)}) <= 3
        /\ pdf.pc = "done" => Len(ch) = k /\ pdf.saved

\* C5 witness: a call with 7 images has returned, 6 of them drawn.
C5_Witness ==
    /\ pdf.pc = "done"
    /\ pdf.nimages = 7
    /\ Len(Charts(pdf)) = 6

\* C9: with the logo missing or unreadable a warning is reported and the
\* call goes on without the logo: the cursor stays at the top margin for the
\* title, every score line, explanation line and chart is emitted, and the
\* canvas is saved and the buffer returned at position 0.
C9_MissingLogoIsNotFatal ==
    (~pdf.logo.ok /\ pdf.pc \notin {"idle", "logo"}) =>
        /\ pdf.warnings = 1
        /\ pdf.pc # "raised"
        /\ \A i \in 1..Len(pdf.drawn) : pdf.drawn[i].kind # "logo"
        /\ pdf.drawn # <<>> =>
              /\ pdf.drawn[1].kind = "title"
              /\ pdf.drawn[1].y = height - margin
        /\ pdf.pc = "done" =>
              /\ Len(TextLines(pdf)) = Len(AllTextLines(pdf))
              /\ Len(Charts(pdf)) = (IF pdf.nimages < 6 THEN pdf.nimages ELSE 6)
              /\ pdf.saved
              /\ pdf.buffer = "at 0"

\* C9 witness: a call without a logo has returned, with score lines and charts.
C9_Witness ==
    /\ pdf.pc = "done"
    /\ ~pdf.logo.ok
    /\ pdf.nscores > 0
    /\ pdf.nimages > 0
    /\ Len(pdf.drawn) > 2

\* C10: no score line or explanation line is drawn with the cursor below the
\* bottom margin: when y - 15 < margin a new page is started and the cursor is
\* at height - margin before the line is drawn; every line is drawn once, in
\* order.
C10_TextLinesStayAboveBottomMargin ==
    LET tl == TextLines(pdf)
    IN  /\ \A i \in 1..Len(tl) :
             /\ tl[i].y >= margin
             /\ (tl[i].was - 15 < margin) => tl[i].y = height - margin
             /\ (tl[i].was - 15 >= margin) => tl[i].y = tl[i].was
             /\ i > 1 => (tl[i].page = tl[i - 1].page + 1) = (tl[i].was - 15 < margin)
        /\ Len(tl) <= Len(AllTextLines(pdf))
        /\ \A i \in 1..Len(tl) : <<tl[i].kind, tl[i].id>> = AllTextLines(pdf)[i]
        /\ pdf.pc \in {"charts", "save", "done"} => Len(tl) = Len(AllTextLines(pdf))

\* C10 witness: a call has returned after a line of its text would have
\* crossed the bottom margin and was drawn at the top of a new page.
C10_Witness ==
    /\ pdf.pc = "done"
    /\ pdf.nscores > 0
    /\ \E i \in 1..Len(pdf.drawn) :
         /\ IsTextLine(pdf.drawn[i])
         /\ pdf.drawn[i].was - 15 < margin
         /\ pdf.drawn[i].page > 1
         /\ pdf.drawn[i].y = height - margin

----------------------------------------------------------------------------
(* Properties of the running process, checked under Spec *)

\* the rating scales the specification configures: 4-point and 5-point
RatingConfigurations == {4, 5}

TotalsSum(sc) ==
    SumSeq([i \in 1..Len(sc.total_scores_per_category) |->
               sc.total_scores_per_category[i][2]])

\* C1: after any sequence of answer changes, the per-category totals of the
\* collected responses add up to the total score.
C1_CategoryTotalsSumToTotal ==
    \A s \in Sessions :
        Started(s) => TotalsSum(screen[s]) = screen[s].total_score

\* C1 witness: a run that collected all the responses after an answer was
\* changed, so the total is above the all-defaults total.
C1_Witness ==
    \E s \in Sessions :
        /\ Started(s)
        /\ Len(screen[s].responses) = Len(questions_list)
        /\ screen[s].total_score > Len(questions_list)
        /\ Len(screen[s].total_scores_per_category) = Len(categories)

\* C2: the percentage of the progress bar and of the PDF score line is the
\* ratio raw / max x 100 rounded to the nearest integer.
C2_PercentageIsRounded ==
    \A s \in Sessions :
        screen[s].submitted =>
            /\ \A i \in 1..Len(screen[s].results) :
                 screen[s].results[i].progress
                    = Round(screen[s].results[i].score, screen[s].results[i].max_score)
            /\ \A i \in 1..Len(screen[s].score_lines) :
                 screen[s].score_lines[i].progress
                    = Round(screen[s].score_lines[i].score,
                            screen[s].score_lines[i].max_score)

\* C3: under each configured rating scale, the maximum of every category and
\* of every subsection is its number of questions times that scale's maximum.
C3_MaxScoreUsesConfiguredRating ==
    \A max_rating \in RatingConfigurations :
        \A s \in Sessions :
            screen[s].submitted =>
                /\ \A i \in 1..Len(categories) :
                     Lookup(screen[s].max_scores_per_category, categories[i].name)
                        = TotalQuestions(categories[i]) * max_rating
                /\ \A i \in 1..Len(screen[s].flattened) :
                     \A c \in 1..Len(categories) : \A t \in 1..Len(categories[c].types) :
                        (/\ screen[s].flattened[i].Category = categories[c].name
                         /\ screen[s].flattened[i].Type = categories[c].types[t].name)
                        => screen[s].flattened[i].MaxScore
                              = categories[c].types[t].n * max_rating

\* C6: for every category, raw score <= max score, 0 <= percentage <= 100,
\* and the percentage is 0 exactly when the raw score is 0.
C6_ScoreAndPercentageInRange ==
    \A s \in Sessions :
        /\ \A i \in 1..Len(screen[s].total_scores_per_category) :
             screen[s].total_scores_per_category[i][2]
                <= Lookup(screen[s].max_scores_per_category,
                          screen[s].total_scores_per_category[i][1])
        /\ \A i \in 1..Len(screen[s].results) :
             LET r == screen[s].results[i]
             IN  /\ r.score <= r.max_score
                 /\ 0 <= r.progress /\ r.progress <= 100
                 /\ (r.progress = 0) <=> (r.score = 0)

\* C6 witness: results are shown after an answer was raised, so one category
\* stands above the all-defaults fifth of its maximum.
C6_Witness ==
    \E s \in Sessions :
        /\ screen[s].submitted
        /\ Len(screen[s].results) = Len(categories)
        /\ \E i \in 1..Len(screen[s].results) : screen[s].results[i].progress > 20

\* C7: display_questions returns exactly one response per question, every
\* score is one of the ratings 1..5, and a question the respondent never
\* answered holds the default 1.
C7_OneRatedResponsePerQuestion ==
    \A s \in Sessions :
        Started(s) =>
            /\ Len(screen[s].responses) = Len(questions_list)
            /\ \A q \in 1..Len(questions_list) :
                 \E i \in 1..Len(screen[s].responses) :
                    WidgetKey(screen[s].responses[i]) = WidgetKey(questions_list[q])
            /\ \A i \in 1..Len(screen[s].responses) :
                 /\ screen[s].responses[i].score \in {1, 2, 3, 4, 5}
                 /\ widget_state[s][WidgetKey(screen[s].responses[i])]
                       = screen[s].responses[i].score
                 /\ (\A item \in Answerable(s) :
                        WidgetKey(item) # WidgetKey(screen[s].responses[i]))
                    => screen[s].responses[i].score = 1

\* C7 witness: a session that has run three times and selected a rating
\* other than the default.
C7_Witness ==
    \E s \in Sessions :
        /\ Started(s)
        /\ session_state[s]["unique_visits"] >= 3
        /\ \E i \in 1..Len(screen[s].responses) : screen[s].responses[i].score > 1

\* C8: the visit counter is process-wide and monotone: across the runs of
\* main() by any sessions, the displayed value never decreases.
C8_VisitCounterNeverDecreases == [][last_visits' >= last_visits]_vars

\* b holds the elements of a, each exactly once
IsPermutation(a, b) ==
    /\ Len(a) = Len(b)
    /\ \A i \in 1..Len(b) : Cardinality({j \in 1..Len(a) : a[j] = b[i]}) = 1
    /\ \A j \in 1..Len(a) : \E i \in 1..Len(b) : b[i] = a[j]

Shuffled(s) == "shuffled_questions" \in DOMAIN session_state[s]

\* C11: the questions are shuffled once per session: the first run of main()
\* sets shuffled_questions to a permutation of questions_list, every later run
\* of the session leaves it unchanged, and the module-level questions_list is
\* never reordered.
C11_ShuffledOncePerSession ==
    /\ [](\A s \in Sessions :
            /\ Started(s) <=> Shuffled(s)
            /\ Shuffled(s) =>
                 IsPermutation(questions_list,
                               session_state[s]["shuffled_questions"])
            /\ Started(s) =>
                 [i \in 1..Len(screen[s].responses) |->
                     WidgetKey(screen[s].responses[i])]
                 = [i \in 1..Len(questions_list) |->
                     WidgetKey(session_state[s]["shuffled_questions"][i])])
    /\ [](module_questions = questions_list)
    /\ [][\A s \in Sessions :
            Shuffled(s) =>
                /\ Shuffled(s)'
                /\ session_state[s]["shuffled_questions"]'
                     = session_state[s]["shuffled_questions"]]_vars

\* C11 witness: a session whose questions were shuffled out of the order of
\* questions_list has run again after an answer was changed and Submit clicked.
C11_Witness ==
    \E s \in Sessions :
        /\ Shuffled(s)
        /\ session_state[s]["shuffled_questions"] # questions_list
        /\ session_state[s]["unique_visits"] >= 3
        /\ screen[s].submitted
        /\ screen[s].total_score > Len(questions_list)
        /\ module_questions = questions_list

====
